---------------------------- MODULE Spec2Model ----------------------------
(***************************************************************************)
(* METAR report decoding of metpy.io.metar (src/src/metpy/io/metar.py).   *)
(*                                                                         *)
(* Text is a sequence of one-character strings, so that the slicing,       *)
(* stripping, splitting and number conversions of the Python code are      *)
(* computed character by character.  A value that the code may set to      *)
(* numpy.nan is an option: NaN (missing) or Val(v).                        *)
(***************************************************************************)
EXTENDS Integers, Sequences, FiniteSets, TLC

\* one call of parse_metar
VARIABLES metar_text, year, month, pc, tree, fields, exc

\* one call of _metars_to_dataframe, and the system clock it may read
VARIABLES metar_iter, year_arg, month_arg, now, df_year, df_month, consumed, metars,
          df, df_pc, df_exc

\* one call of parse_metar_file, up to the reports it hands to the parser
VARIABLES myfile, pos, tmp, yielded, passed, file_pc

call_vars == <<metar_text, year, month, pc, tree, fields, exc>>

batch_vars ==
    <<metar_iter, year_arg, month_arg, now, df_year, df_month, consumed, metars, df,
      df_pc, df_exc>>

file_vars == <<myfile, pos, tmp, yielded, passed, file_pc>>

vars == <<call_vars, batch_vars, file_vars>>

\* the functions that are not running in a specification are idle in it
CallIdle ==
    /\ metar_text = <<>> /\ year = 0 /\ month = 0 /\ pc = "idle"
    /\ tree = <<>> /\ fields = <<>> /\ exc = "none"

BatchIdle ==
    /\ metar_iter = <<>> /\ year_arg = <<>> /\ month_arg = <<>> /\ now = <<>>
    /\ df_year = <<>> /\ df_month = <<>> /\ consumed = 0 /\ metars = <<>>
    /\ df = <<>> /\ df_pc = "idle" /\ df_exc = "none"

FileIdle ==
    /\ myfile = <<>> /\ pos = 0 /\ tmp = <<>> /\ yielded = <<>> /\ passed = <<>>
    /\ file_pc = "idle"

(***************************************************************************)
(* Bounds of the model.                                                    *)
(***************************************************************************)
\* How many groups of one report differ from the well-formed base report.
MaxVaried == 2

(***************************************************************************)
(* Missing values.                                                         *)
(***************************************************************************)
NaN == <<>>
Val(v) == <<v>>
IsNaN(o) == o = <<>>
Get(o) == o[1]

(***************************************************************************)
(* Python str operations.                                                  *)
(***************************************************************************)
Min(a, b) == IF a < b THEN a ELSE b

IsSpace(c) == c \in {" ", "\t", "\n"}

RECURSIVE LStrip(_)
LStrip(s) == IF s # <<>> /\ IsSpace(Head(s)) THEN LStrip(Tail(s)) ELSE s

RECURSIVE RStrip(_)
RStrip(s) ==
    IF s # <<>> /\ IsSpace(s[Len(s)]) THEN RStrip(SubSeq(s, 1, Len(s) - 1)) ELSE s

\* s.strip()
Strip(s) == RStrip(LStrip(s))

\* s[i:j] for 0 <= i <= j (indexes past the end are clamped, never an error)
Slice(s, i, j) == SubSeq(s, i + 1, Min(j, Len(s)))

\* s[i:]
SliceFrom(s, i) == SubSeq(s, i + 1, Len(s))

\* s[:-n]
DropLast(s, n) == SubSeq(s, 1, Len(s) - n)

\* s[-n:]
TakeLast(s, n) == IF Len(s) <= n THEN s ELSE SubSeq(s, Len(s) - n + 1, Len(s))

\* sub in s
Contains(sub, s) ==
    \E i \in 1..(Len(s) - Len(sub) + 1) : SubSeq(s, i, i + Len(sub) - 1) = sub

\* s.endswith(suf)
EndsWith(s, suf) == Len(s) >= Len(suf) /\ TakeLast(s, Len(suf)) = suf

\* length of the first run of non-blank characters of s
RECURSIVE WordLen(_)
WordLen(s) == IF s = <<>> \/ IsSpace(Head(s)) THEN 0 ELSE 1 + WordLen(Tail(s))

\* s.split(): the non-blank words of s, in order
RECURSIVE Split(_)
Split(s) ==
    LET t == LStrip(s)
        n == WordLen(t)
    IN  IF t = <<>> THEN <<>> ELSE <<SubSeq(t, 1, n)>> \o Split(SliceFrom(t, n))

\* s.split(maxsplit=1): the first word, then the rest without its leading blanks
SplitMax1(s) ==
    LET t == LStrip(s)
        n == WordLen(t)
        r == LStrip(SliceFrom(t, n))
    IN  IF t = <<>> THEN <<>>
        ELSE IF r = <<>> THEN <<SubSeq(t, 1, n)>>
        ELSE <<SubSeq(t, 1, n), r>>

\* position of the first c in s, 0 when there is none
RECURSIVE Find(_, _)
Find(c, s) ==
    IF s = <<>> THEN 0
    ELSE IF Head(s) = c THEN 1
    ELSE LET k == Find(c, Tail(s)) IN IF k = 0 THEN 0 ELSE k + 1

\* s.split(c, maxsplit=1)
SplitOn(s, c) ==
    LET k == Find(c, s)
    IN  IF k = 0 THEN <<s>> ELSE <<SubSeq(s, 1, k - 1), SliceFrom(s, k)>>

(***************************************************************************)
(* Python int() and float() of a str.  Both drop surrounding whitespace    *)
(* and take one optional sign; the texts of this model hold no '.', '_',   *)
(* exponent or nan/inf word, so on them float() accepts what int()         *)
(* accepts and gives the same number.                                      *)
(***************************************************************************)
Digits == <<"0", "1", "2", "3", "4", "5", "6", "7", "8", "9">>

IsDigit(c) == \E i \in 1..10 : Digits[i] = c

DigitVal(c) == (CHOOSE i \in 1..10 : Digits[i] = c) - 1

RECURSIVE DigitsVal(_)
DigitsVal(s) ==
    IF s = <<>> THEN 0 ELSE 10 * DigitsVal(SubSeq(s, 1, Len(s) - 1)) + DigitVal(s[Len(s)])

\* [ok |-> the conversion succeeded, val |-> its value]; not ok is ValueError
PyInt(s) ==
    LET t == Strip(s)
        signed == t # <<>> /\ Head(t) \in {"+", "-"}
        body == IF signed THEN Tail(t) ELSE t
        good == body # <<>> /\ \A i \in 1..Len(body) : IsDigit(body[i])
    IN  IF ~good THEN [ok |-> FALSE, val |-> 0]
        ELSE [ok |-> TRUE,
              val |-> IF signed /\ Head(t) = "-" THEN 0 - DigitsVal(body)
                      ELSE DigitsVal(body)]

PyFloat(s) == PyInt(s)


(***************************************************************************)
(* The tokenizer, parse() of metpy.io._metar_parser.  A report is held     *)
(* with its group boundaries: one span per group, in report order, the     *)
(* report's text being their concatenation.  The tokenizer only finds the  *)
(* groups; it fails, with ParseError, when the report has no station id.   *)
(* The wind group carries its direction and speed spans, the temperature   *)
(* group its temperature and dewpoint spans.                               *)
(***************************************************************************)
Letters ==
    {"A", "B", "C", "D", "E", "F", "G", "H", "I", "J", "K", "L", "M",
     "N", "O", "P", "Q", "R", "S", "T", "U", "V", "W", "X", "Y", "Z"}

\* length of a station identifier
SiteIdLen == 4

\* the report as one string (the wind span holds no separator of its own)
ReportText(r) ==
    r.siteid \o r.datetime
        \o (IF r.wind.text = <<>> THEN <<>> ELSE <<" ">> \o r.wind.text)
        \o r.vis \o r.curwx \o r.skyc \o r.temp_dewp.text \o r.altim

StationIdShaped(s) ==
    /\ Len(s) = SiteIdLen
    /\ \A i \in 1..Len(s) : IsDigit(s[i]) \/ s[i] \in Letters

\* [ok |-> FALSE] is ParseError; otherwise tree is the tree of spans
parse(text) ==
    IF StationIdShaped(Strip(text.siteid))
    THEN [ok |-> TRUE, tree |-> text]
    ELSE [ok |-> FALSE]

(***************************************************************************)
(* The station table (station_info) and the calendar of datetime().        *)
(***************************************************************************)
station_info ==
    [id \in {<<"K", "D", "E", "N">>, <<"K", "L", "O", "T">>} |->
        IF id = <<"K", "D", "E", "N">>
        THEN [latitude |-> 3985, longitude |-> -10465, altitude |-> 1640]
        ELSE [latitude |-> 4160, longitude |-> -8808, altitude |-> 205]]

IsLeap(y) == (y % 4 = 0 /\ y % 100 # 0) \/ y % 400 = 0

DaysInMonth(y, m) ==
    IF m = 2 THEN (IF IsLeap(y) THEN 29 ELSE 28)
    ELSE IF m \in {4, 6, 9, 11} THEN 30 ELSE 31

\* datetime(y, m, d, h, mi) does not raise ValueError
ValidDateTime(y, m, d, h, mi) ==
    /\ y \in 1..9999
    /\ m \in 1..12
    /\ d >= 1 /\ d <= DaysInMonth(y, m)
    /\ h \in 0..23
    /\ mi \in 0..59

(***************************************************************************)
(* The field decoders of parse_metar, one per block of the function.  A    *)
(* decoder whose block can let an exception out gives it in exc ("none"    *)
(* when the block ran to its end).                                         *)
(***************************************************************************)
DecodeStation(tr) ==
    LET id == Strip(tr.siteid)
    IN  IF id \in DOMAIN station_info
        THEN [station_id |-> id,
              latitude |-> Val(station_info[id].latitude),
              longitude |-> Val(station_info[id].longitude),
              elevation |-> Val(station_info[id].altitude)]
        ELSE [station_id |-> id, latitude |-> NaN, longitude |-> NaN,
              elevation |-> NaN]

\* DecodeDateTime taking any day from 1 to 31, whatever the month
DecodeDateTimeAnyMonth(tr, y, m) ==
    LET day_time_utc == Strip(DropLast(tr.datetime, 1))
        day == PyInt(Slice(day_time_utc, 0, 2))
        hour == PyInt(Slice(day_time_utc, 2, 4))
        minute == PyInt(Slice(day_time_utc, 4, 7))
    IN  IF /\ day.ok /\ hour.ok /\ minute.ok
           /\ day.val \in 1..31 /\ hour.val \in 0..23 /\ minute.val \in 0..59
        THEN Val(<<y, m, day.val, hour.val, minute.val>>)
        ELSE NaN

DecodeDateTime(tr, y, m) ==
    LET day_time_utc == Strip(DropLast(tr.datetime, 1))
        day == PyInt(Slice(day_time_utc, 0, 2))
        hour == PyInt(Slice(day_time_utc, 2, 4))
        minute == PyInt(Slice(day_time_utc, 4, 7))
    IN  IF /\ day.ok /\ hour.ok /\ minute.ok
           /\ ValidDateTime(y, m, day.val, hour.val, minute.val)
        THEN Val(<<y, m, day.val, hour.val, minute.val>>)
        ELSE NaN

WindMissing(w) ==
    \/ Contains(<<"/">>, w.text)
    \/ w.text = <<"K", "T">>
    \/ w.text = <<>>

\* WindVariable without the VAR spelling
WindVariableVRBOnly(w) == w.wind_dir = <<"V", "R", "B">>

WindVariable(w) ==
    \/ w.wind_dir = <<"V", "R", "B">>
    \/ w.wind_dir = <<"V", "A", "R">>

\* the except ValueError clause of the wind block
WindOnError == [wind_direction |-> NaN, wind_speed |-> NaN]

\* DecodeWind with a handler that drops only the value that failed
DecodeWindPartial(tr) ==
    LET w == tr.wind
        dir == PyInt(w.wind_dir)
        spd == PyInt(w.wind_spd)
    IN  IF WindMissing(w) THEN [wind_direction |-> NaN, wind_speed |-> NaN]
        ELSE [wind_direction |->
                  IF WindVariable(w) \/ ~dir.ok THEN NaN ELSE Val(dir.val),
              wind_speed |-> IF spd.ok THEN Val(spd.val) ELSE NaN]

DecodeWind(tr) ==
    LET w == tr.wind
        dir == PyInt(w.wind_dir)
        spd == PyInt(w.wind_spd)
        fspd == PyFloat(w.wind_spd)
    IN  IF WindMissing(w) THEN [wind_direction |-> NaN, wind_speed |-> NaN]
        ELSE IF WindVariable(w)
        THEN IF fspd.ok THEN [wind_direction |-> NaN, wind_speed |-> Val(fspd.val)]
             ELSE WindOnError
        ELSE IF dir.ok /\ spd.ok
             THEN [wind_direction |-> Val(dir.val), wind_speed |-> Val(spd.val)]
             ELSE WindOnError

(***************************************************************************)
(* Visibility is an exact fraction of a metre, <<numerator, denominator>>  *)
(* with a positive denominator: a mile is 1609.344 = 201168 / 125 metres.  *)
(***************************************************************************)
MileNum == 201168
MileDen == 125

Metres(n) == <<n, 1>>

Abs(n) == IF n < 0 THEN 0 - n ELSE n

RECURSIVE GCD(_, _)
GCD(a, b) == IF b = 0 THEN a ELSE GCD(b, a % b)

\* n / d in lowest terms, for d > 0
Reduce(n, d) == <<n \div GCD(Abs(n), d), d \div GCD(Abs(n), d)>>

\* (whole + num / denom) miles in metres, for denom # 0
MilesToMetres(whole, num, denom) ==
    IF denom > 0
    THEN Reduce((whole * denom + num) * MileNum, denom * MileDen)
    ELSE Reduce((0 - (whole * denom + num)) * MileNum, (0 - denom) * MileDen)

CavokVisibility == 10000

\* VisibilitySM without the whole part before the fraction
VisibilitySMNoWhole(text) ==
    LET stripped == Strip(DropLast(text, 2))
        parts == SplitMax1(stripped)
        vis_str == IF Contains(<<" ">>, stripped) THEN parts[2] ELSE stripped
        nd == SplitOn(vis_str, "/")
    IN  IF Contains(<<"/">>, vis_str)
        THEN IF ~PyInt(nd[1]).ok \/ ~PyInt(nd[2]).ok
             THEN [exc |-> "ValueError", visibility |-> NaN]
             ELSE IF PyInt(nd[2]).val = 0
             THEN [exc |-> "ZeroDivisionError", visibility |-> NaN]
             ELSE [exc |-> "none",
                   visibility |->
                       Val(MilesToMetres(0, PyInt(nd[1]).val, PyInt(nd[2]).val))]
        ELSE IF ~PyInt(vis_str).ok THEN [exc |-> "ValueError", visibility |-> NaN]
             ELSE [exc |-> "none",
                   visibility |-> Val(MilesToMetres(PyInt(vis_str).val, 0, 1))]

\* the statute-mile branch
VisibilitySM(text) ==
    LET stripped == Strip(DropLast(text, 2))
        hasWhole == Contains(<<" ">>, stripped)
        parts == SplitMax1(stripped)
        whole == IF hasWhole THEN PyInt(parts[1]) ELSE [ok |-> TRUE, val |-> 0]
        vis_str == IF hasWhole THEN parts[2] ELSE stripped
        hasFrac == Contains(<<"/">>, vis_str)
        nd == SplitOn(vis_str, "/")
        num == PyInt(nd[1])
        denom == PyInt(nd[2])
        int == PyInt(vis_str)
    IN  IF ~whole.ok THEN [exc |-> "ValueError", visibility |-> NaN]
        ELSE IF hasFrac
        THEN IF ~num.ok \/ ~denom.ok THEN [exc |-> "ValueError", visibility |-> NaN]
             ELSE IF denom.val = 0
             THEN [exc |-> "ZeroDivisionError", visibility |-> NaN]
             ELSE [exc |-> "none",
                   visibility |-> Val(MilesToMetres(whole.val, num.val, denom.val))]
        ELSE IF ~int.ok THEN [exc |-> "ValueError", visibility |-> NaN]
             ELSE [exc |-> "none",
                   visibility |-> Val(MilesToMetres(whole.val + int.val, 0, 1))]

\* VisibilityMetres reading the whole span
VisibilityMetresWhole(text) ==
    LET n == PyInt(Strip(text))
    IN  IF n.ok THEN [exc |-> "none", visibility |-> Val(Metres(n.val))]
        ELSE [exc |-> "ValueError", visibility |-> NaN]

\* the last branch: the first 4 characters as metres
VisibilityMetres(text) ==
    LET n == PyInt(Slice(Strip(text), 0, 4))
    IN  IF n.ok THEN [exc |-> "none", visibility |-> Val(Metres(n.val))]
        ELSE [exc |-> "ValueError", visibility |-> NaN]

VisFiller(text) == text = <<>> \/ Strip(text) = <<"/", "/", "/", "/">>

\* DecodeVisibility taking only a span that is exactly CAVOK as CAVOK
DecodeVisibilityCavokOnly(tr) ==
    IF EndsWith(tr.vis, <<"S", "M">>) THEN VisibilitySM(tr.vis)
    ELSE IF Strip(tr.vis) = <<"C", "A", "V", "O", "K">>
    THEN [exc |-> "none", visibility |-> Val(Metres(CavokVisibility))]
    ELSE IF VisFiller(tr.vis) THEN [exc |-> "none", visibility |-> NaN]
    ELSE VisibilityMetres(tr.vis)

DecodeVisibility(tr) ==
    IF EndsWith(tr.vis, <<"S", "M">>) THEN VisibilitySM(tr.vis)
    ELSE IF Contains(<<"C", "A", "V", "O", "K">>, tr.vis)
    THEN [exc |-> "none", visibility |-> Val(Metres(CavokVisibility))]
    ELSE IF VisFiller(tr.vis) THEN [exc |-> "none", visibility |-> NaN]
    ELSE VisibilityMetres(tr.vis)

(***************************************************************************)
(* Present weather.  wx_code_map is the phenomenon table of                *)
(* metpy.plots.wx_symbols; four of its entries are kept.                   *)
(***************************************************************************)
wx_code_map ==
    [code \in {<<"R", "A">>, <<"-", "R", "A">>, <<"B", "R">>, <<"F", "G">>} |->
        IF code = <<"R", "A">> THEN 63
        ELSE IF code = <<"-", "R", "A">> THEN 61
        ELSE IF code = <<"B", "R">> THEN 10
        ELSE 45]

\* int(wx_code_map[wx]) with its except (IndexError, KeyError) clause
WxSymbol(wx) ==
    IF ~IsNaN(wx) /\ Get(wx) \in DOMAIN wx_code_map THEN wx_code_map[Get(wx)] ELSE 0

CurWxMissing(text) == text = <<>> \/ Strip(text) = <<"/", "/">>

\* DecodeCurWx with the second symbol looked up from the first code
DecodeCurWxFirstCodeTwice(tr) ==
    LET codes == Split(Strip(tr.curwx))
        wx == [i \in 1..3 |-> IF i <= Len(codes) THEN Val(codes[i]) ELSE NaN]
    IN  IF CurWxMissing(tr.curwx)
        THEN [current_wx1 |-> NaN, current_wx2 |-> NaN, current_wx3 |-> NaN,
              current_wx1_symbol |-> 0, current_wx2_symbol |-> 0,
              current_wx3_symbol |-> 0]
        ELSE [current_wx1 |-> wx[1], current_wx2 |-> wx[2], current_wx3 |-> wx[3],
              current_wx1_symbol |-> WxSymbol(wx[1]),
              current_wx2_symbol |-> WxSymbol(wx[1]),
              current_wx3_symbol |-> WxSymbol(wx[3])]

DecodeCurWx(tr) ==
    LET codes == Split(Strip(tr.curwx))
        wx == [i \in 1..3 |-> IF i <= Len(codes) THEN Val(codes[i]) ELSE NaN]
    IN  IF CurWxMissing(tr.curwx)
        THEN [current_wx1 |-> NaN, current_wx2 |-> NaN, current_wx3 |-> NaN,
              current_wx1_symbol |-> 0, current_wx2_symbol |-> 0,
              current_wx3_symbol |-> 0]
        ELSE [current_wx1 |-> wx[1], current_wx2 |-> wx[2], current_wx3 |-> wx[3],
              current_wx1_symbol |-> WxSymbol(wx[1]),
              current_wx2_symbol |-> WxSymbol(wx[2]),
              current_wx3_symbol |-> WxSymbol(wx[3])]

(***************************************************************************)
(* Sky cover.                                                              *)
(***************************************************************************)
\* number of sky-cover layers of a record
MaxLayers == 4

\* feet per unit of a reported cloud height
LevelUnit == 100

IsVerticalVisibility(text) == Slice(text, 1, 3) = <<"V", "V">>

\* LayerType with the '/' test made on the whole token
LayerTypeWholeToken(skyc, i) ==
    IF i > Len(skyc) THEN NaN
    ELSE IF Contains(<<"/">>, skyc[i]) THEN NaN
    ELSE Val(Slice(skyc[i], 0, 3))

\* skyc[i][0:3] with its '/' test and its except clause (i counted from 1)
LayerType(skyc, i) ==
    IF i > Len(skyc) THEN NaN
    ELSE IF Contains(<<"/">>, Slice(skyc[i], 0, 3)) THEN NaN
    ELSE Val(Slice(skyc[i], 0, 3))

\* float(skyc[i][3:]) * 100 with its '/' test and its except clause
LayerLevel(skyc, i) ==
    IF i > Len(skyc) THEN NaN
    ELSE IF Contains(<<"/">>, SliceFrom(skyc[i], 3)) THEN NaN
    ELSE IF PyFloat(SliceFrom(skyc[i], 3)).ok
    THEN Val(PyFloat(SliceFrom(skyc[i], 3)).val * LevelUnit)
    ELSE NaN

\* VerticalVisibilityLevel without the factor of 100
VerticalVisibilityLevelUnscaled(text) ==
    LET level == SliceFrom(Strip(text), 2)
    IN  IF level = <<"/", "/", "/">> THEN [exc |-> "none", skylev |-> NaN]
        ELSE IF PyInt(level).ok
        THEN [exc |-> "none", skylev |-> Val(PyInt(level).val)]
        ELSE [exc |-> "ValueError", skylev |-> NaN]

\* the vertical-visibility branch: 100 * int(level) is outside any try
VerticalVisibilityLevel(text) ==
    LET level == SliceFrom(Strip(text), 2)
    IN  IF level = <<"/", "/", "/">> THEN [exc |-> "none", skylev |-> NaN]
        ELSE IF PyInt(level).ok
        THEN [exc |-> "none", skylev |-> Val(LevelUnit * PyInt(level).val)]
        ELSE [exc |-> "ValueError", skylev |-> NaN]

DecodeSkyCover(tr) ==
    LET skyc == Split(Strip(tr.skyc))
        vv == VerticalVisibilityLevel(tr.skyc)
    IN  IF IsVerticalVisibility(tr.skyc)
        THEN [exc |-> vv.exc,
              skyc |-> [i \in 1..MaxLayers |-> IF i = 1 THEN Val(<<"V", "V">>) ELSE NaN],
              skylev |-> [i \in 1..MaxLayers |-> IF i = 1 THEN vv.skylev ELSE NaN]]
        ELSE [exc |-> "none",
              skyc |-> [i \in 1..MaxLayers |-> LayerType(skyc, i)],
              skylev |-> [i \in 1..MaxLayers |-> LayerLevel(skyc, i)]]

\* DecodeCloudCover with the tests in the order of the layers' amounts
DecodeCloudCoverFewFirst(tr) ==
    IF Contains(<<"F", "E", "W">>, tr.skyc) THEN 2
    ELSE IF Contains(<<"S", "C", "T">>, tr.skyc) THEN 4
    ELSE IF Contains(<<"B", "K", "N">>, tr.skyc) THEN 6
    ELSE IF Contains(<<"O", "V", "C">>, tr.skyc) \/ Contains(<<"V", "V">>, tr.skyc) THEN 8
    ELSE IF \/ Contains(<<"S", "K", "C">>, tr.skyc)
            \/ Contains(<<"N", "C", "D">>, tr.skyc)
            \/ Contains(<<"N", "S", "C">>, tr.skyc)
            \/ Contains(<<"C", "L", "R">>, tr.skyc)
            \/ Contains(<<"C", "A", "V", "O", "K">>, tr.vis) THEN 0
    ELSE 10

DecodeCloudCover(tr) ==
    IF Contains(<<"O", "V", "C">>, tr.skyc) \/ Contains(<<"V", "V">>, tr.skyc) THEN 8
    ELSE IF Contains(<<"B", "K", "N">>, tr.skyc) THEN 6
    ELSE IF Contains(<<"S", "C", "T">>, tr.skyc) THEN 4
    ELSE IF Contains(<<"F", "E", "W">>, tr.skyc) THEN 2
    ELSE IF \/ Contains(<<"S", "K", "C">>, tr.skyc)
            \/ Contains(<<"N", "C", "D">>, tr.skyc)
            \/ Contains(<<"N", "S", "C">>, tr.skyc)
            \/ Contains(<<"C", "L", "R">>, tr.skyc)
            \/ Contains(<<"C", "A", "V", "O", "K">>, tr.vis) THEN 0
    ELSE 10

(***************************************************************************)
(* Temperature and dewpoint, altimeter.                                    *)
(***************************************************************************)
\* one sub-token: its last two characters, negated when it holds an M
Celsius(text) ==
    LET n == PyFloat(TakeLast(text, 2))
    IN  IF ~n.ok THEN NaN
        ELSE IF Contains(<<"M">>, text) THEN Val(0 - n.val)
        ELSE Val(n.val)

TempDewpMissing(text) == text = <<>> \/ text = <<" ", "M", "M", "/", "M", "M">>

\* DecodeTempDewp with the sign of both values taken from the whole group
DecodeTempDewpGroupSign(tr) ==
    LET sign == IF Contains(<<"M">>, tr.temp_dewp.text) THEN 0 - 1 ELSE 1
        value(text) ==
            IF PyFloat(TakeLast(text, 2)).ok
            THEN Val(sign * PyFloat(TakeLast(text, 2)).val) ELSE NaN
    IN  IF TempDewpMissing(tr.temp_dewp.text)
        THEN [temperature |-> NaN, dewpoint |-> NaN]
        ELSE [temperature |-> value(tr.temp_dewp.temp),
              dewpoint |-> value(tr.temp_dewp.dewp)]

\* DecodeTempDewp with one try block around both conversions
DecodeTempDewpTogether(tr) ==
    IF TempDewpMissing(tr.temp_dewp.text)
    THEN [temperature |-> NaN, dewpoint |-> NaN]
    ELSE IF IsNaN(Celsius(tr.temp_dewp.temp)) \/ IsNaN(Celsius(tr.temp_dewp.dewp))
    THEN [temperature |-> NaN, dewpoint |-> NaN]
    ELSE [temperature |-> Celsius(tr.temp_dewp.temp),
          dewpoint |-> Celsius(tr.temp_dewp.dewp)]

DecodeTempDewp(tr) ==
    IF TempDewpMissing(tr.temp_dewp.text)
    THEN [temperature |-> NaN, dewpoint |-> NaN]
    ELSE [temperature |-> Celsius(tr.temp_dewp.temp),
          dewpoint |-> Celsius(tr.temp_dewp.dewp)]

\* above this number the altimeter group is in hundredths of inHg
AltimThreshold == 1100

\* the altimeter is kept in ten-thousandths of an inch of mercury
InHgUnit == 10000

\* float(text) / 100: n hundredths of an inch of mercury
HundredthsToInHg(n) == n * (InHgUnit \div 100)

\* one hectopascal is 0.02952998 inHg (pint: 100 Pa / 3386.389 Pa), that is
\* InHgPerHPaNum / InHgPerHPaDen ten-thousandths
InHgPerHPaNum == 1476499

InHgPerHPaDen == 5000

\* units.Quantity(n, 'hPa').to('inHg').m, to the nearest ten-thousandth
HPaToInHg(n) == (n * InHgPerHPaNum + InHgPerHPaDen \div 2) \div InHgPerHPaDen

\* DecodeAltimeter with the threshold itself taken as hundredths of inHg
DecodeAltimeterAtLeast(tr) ==
    LET n == PyFloat(Slice(Strip(tr.altim), 1, 5))
    IN  IF tr.altim = <<>> THEN [exc |-> "none", altimeter |-> NaN]
        ELSE IF ~n.ok THEN [exc |-> "ValueError", altimeter |-> NaN]
        ELSE IF n.val >= AltimThreshold
        THEN [exc |-> "none", altimeter |-> Val(HundredthsToInHg(n.val))]
        ELSE [exc |-> "none", altimeter |-> Val(HPaToInHg(n.val))]

DecodeAltimeter(tr) ==
    LET n == PyFloat(Slice(Strip(tr.altim), 1, 5))
    IN  IF tr.altim = <<>> THEN [exc |-> "none", altimeter |-> NaN]
        ELSE IF ~n.ok THEN [exc |-> "ValueError", altimeter |-> NaN]
        ELSE IF n.val > AltimThreshold
        THEN [exc |-> "none", altimeter |-> Val(HundredthsToInHg(n.val))]
        ELSE [exc |-> "none", altimeter |-> Val(HPaToInHg(n.val))]

(***************************************************************************)
(* The reports given to parse_metar.  A report is the well-formed base     *)
(* report, or the bare report (a station id and nothing else), with at     *)
(* most MaxVaried of its groups, or the year and month of the call,        *)
(* replaced by another text of that group: well formed, filler, absent or  *)
(* garbled.                                                                *)
(***************************************************************************)
WindGroup(dir, spd, rest) ==
    [text |-> dir \o spd \o rest, wind_dir |-> dir, wind_spd |-> spd]

TempDewpGroup(temp, dewp) ==
    [text |-> <<" ">> \o temp \o <<"/">> \o dewp, temp |-> temp, dewp |-> dewp]

NoTempDewp == [text |-> <<>>, temp |-> <<>>, dewp |-> <<>>]

SiteIds ==
    {<<"K", "D", "E", "N">>, <<"K", "L", "O", "T">>, <<"E", "G", "L", "L">>,
     <<>>, <<"K">>, <<"K", "D">>, <<"K", "D", "E">>}

DateTimes ==
    {<<" ", "1", "2", "1", "8", "5", "3", "Z">>,
     <<" ", "2", "9", "1", "2", "0", "0", "Z">>,
     <<" ", "3", "1", "1", "2", "0", "0", "Z">>,
     <<" ", "1", "2", "2", "4", "5", "3", "Z">>,
     <<" ", "1", "2", "1", "8", "6", "0", "Z">>,
     <<" ", "1", "2", "1", "8", "Z">>, <<>>,
     <<" ", "/", "/", "/", "/", "/", "/", "Z">>}

Winds ==
    {WindGroup(<<"2", "8", "0">>, <<"1", "5">>, <<"K", "T">>),
     WindGroup(<<"V", "R", "B">>, <<"0", "5">>, <<"K", "T">>),
     WindGroup(<<"V", "A", "R">>, <<"0", "3">>, <<"K", "T">>),
     WindGroup(<<"/", "/", "/">>, <<"/", "/">>, <<"K", "T">>),
     WindGroup(<<>>, <<>>, <<"K", "T">>), WindGroup(<<>>, <<>>, <<>>),
     WindGroup(<<"2", "8", "0">>, <<"/", "/">>, <<"K", "T">>),
     WindGroup(<<"/", "/", "/">>, <<"1", "5">>, <<"K", "T">>),
     WindGroup(<<"2", "8", "0">>, <<"1", "5">>, <<"G", "2", "5", "K", "T">>),
     WindGroup(<<"V", "R", "B">>, <<>>, <<"K", "T">>),
     WindGroup(<<"2", "8", "0">>, <<>>, <<"K", "T">>),
     WindGroup(<<"2", "8", "O">>, <<"1", "5">>, <<"K", "T">>),
     WindGroup(<<"2", "8", "0">>, <<"1", "X">>, <<"K", "T">>),
     WindGroup(<<"0", "0", "0">>, <<"0", "0">>, <<"K", "T">>),
     WindGroup(<<"2", "8", "0">>, <<"1", "0", "5">>, <<"K", "T">>),
     WindGroup(<<"V", "R", "B">>, <<"/", "/">>, <<"K", "T">>),
     WindGroup(<<"V", "R", "B">>, <<"1", "X">>, <<"M", "P", "S">>)}

Visibilities ==
    {<<" ", "1", "0", "S", "M">>, <<" ", "1", " ", "1", "/", "4", "S", "M">>,
     <<" ", "1", "/", "2", "S", "M">>,
     <<" ", "2", " ", "1", "/", "2", "S", "M">>,
     <<" ", "1", "0", "0", "0", "S", "M">>, <<" ", "9", "9", "9", "9">>,
     <<" ", "9", "9", "9", "9", "N", "D", "V">>, <<" ", "0", "8", "0", "0">>,
     <<" ", "9", "9">>, <<" ", "C", "A", "V", "O", "K">>,
     <<" ", "C", "A", "V", "O", "K", "/", "/", "/", "/">>, <<>>,
     <<" ", "/", "/", "/", "/">>, <<" ", "/", "/", "/">>, <<" ", "/", "/">>,
     <<" ", "/", "/", "/", "/", "S", "M">>, <<" ", "1", "/", "0", "S", "M">>,
     <<" ", "M", "1", "/", "4", "S", "M">>, <<" ", "1", " ", "X", "S", "M">>,
     <<" ", "9", "9", "X", "9">>}

Weathers ==
    {<<" ", "-", "R", "A">>, <<>>, <<" ", "/", "/">>, <<" ", "/", "/", "/">>,
     <<" ", "R", "A", " ", "B", "R">>,
     <<" ", "-", "R", "A", " ", "B", "R", " ", "F", "G">>, <<" ", "X", "X">>,
     <<" ", "R", "A", " ", "B", "R", " ", "F", "G", " ", "H", "Z">>}

SkyCovers ==
    {<<" ", "F", "E", "W", "0", "5", "0", " ", "S", "C", "T", "1", "2", "0">>,
     <<>>, <<" ", "O", "V", "C", "0", "1", "0">>,
     <<" ", "V", "V", "0", "0", "2">>, <<" ", "V", "V", "/", "/", "/">>,
     <<" ", "V", "V", "A", "B", "C">>, <<" ", "V", "V">>,
     <<" ", "C", "L", "R">>, <<" ", "S", "K", "C">>,
     <<" ", "F", "E", "W", "0", "5", "0", " ", "O", "V", "C", "1", "0", "0">>,
     <<" ", "B", "K", "N", "0", "1", "5", "C", "B">>,
     <<" ", "/", "/", "/", "0", "1", "5">>,
     <<" ", "F", "E", "W", "/", "/", "/">>,
     <<" ", "F", "E", "W", "0", "5", "0", " ", "S", "C", "T", "0", "7", "0", " ", "B", "K", "N", "1", "0", "0", " ", "O", "V", "C", "2", "0", "0">>,
     <<" ", "F", "E", "W", "0", "1", "0", " ", "F", "E", "W", "0", "2", "0", " ", "S", "C", "T", "0", "3", "0", " ", "B", "K", "N", "0", "4", "0", " ", "O", "V", "C", "0", "5", "0">>,
     <<" ", "X", "X", "X", "X", "X", "X">>,
     <<" ", "/", "/", "/", "/", "/", "/">>}

TempDewps ==
    {NoTempDewp,
     TempDewpGroup(<<"2", "0">>, <<"M", "0", "5">>),
     TempDewpGroup(<<"M", "M">>, <<"M", "M">>),
     TempDewpGroup(<<"M", "0", "5">>, <<"M", "1", "0">>),
     TempDewpGroup(<<"2", "0">>, <<>>),
     TempDewpGroup(<<"X", "X">>, <<"1", "0">>),
     TempDewpGroup(<<"2", "0">>, <<"/", "/">>),
     TempDewpGroup(<<"5">>, <<"3">>)}

Altimeters ==
    {<<" ", "A", "2", "9", "9", "2">>, <<" ", "Q", "1", "0", "1", "3">>,
     <<" ", "Q", "1", "1", "0", "0">>, <<" ", "Q", "1", "1", "0", "1">>, <<>>,
     <<" ", "A", "/", "/", "/", "/">>, <<" ", "A", "2", "9">>,
     <<" ", "Q", "0", "9", "9", "8">>}

Dates == {<<2019, 8>>, <<2019, 2>>, <<2020, 2>>}

Groups ==
    {"siteid", "datetime", "wind", "vis", "curwx", "skyc", "temp_dewp", "altim",
     "date"}

Choices(g) ==
    CASE g = "siteid" -> SiteIds
      [] g = "datetime" -> DateTimes
      [] g = "wind" -> Winds
      [] g = "vis" -> Visibilities
      [] g = "curwx" -> Weathers
      [] g = "skyc" -> SkyCovers
      [] g = "temp_dewp" -> TempDewps
      [] g = "altim" -> Altimeters
      [] g = "date" -> Dates

BaseReport ==
    [siteid |-> <<"K", "D", "E", "N">>,
     datetime |-> <<" ", "1", "2", "1", "8", "5", "3", "Z">>,
     wind |-> WindGroup(<<"2", "8", "0">>, <<"1", "5">>, <<"K", "T">>),
     vis |-> <<" ", "1", "0", "S", "M">>,
     curwx |-> <<" ", "-", "R", "A">>,
     skyc |-> <<" ", "F", "E", "W", "0", "5", "0", " ", "S", "C", "T", "1", "2", "0">>,
     temp_dewp |-> TempDewpGroup(<<"2", "0">>, <<"M", "0", "5">>),
     altim |-> <<" ", "A", "2", "9", "9", "2">>,
     date |-> <<2019, 8>>]

BareReport ==
    [siteid |-> <<"K", "D", "E", "N">>,
     datetime |-> <<>>,
     wind |-> WindGroup(<<>>, <<>>, <<>>),
     vis |-> <<>>,
     curwx |-> <<>>,
     skyc |-> <<>>,
     temp_dewp |-> NoTempDewp,
     altim |-> <<>>,
     date |-> <<2019, 8>>]

\* the texts group g may take when the groups in G are the varied ones
Pick(base, G, g) == IF g \in G THEN Choices(g) ELSE {base[g]}

VariedSets == {G \in SUBSET Groups : Cardinality(G) <= MaxVaried}

\* no local of parse_metar is assigned yet; no tree either
Fields == [n \in {} |-> NaN]

NoTree == <<>>

Init ==
    /\ \E base \in {BaseReport, BareReport}, G \in VariedSets :
         \E r \in [siteid : Pick(base, G, "siteid"),
                   datetime : Pick(base, G, "datetime"),
                   wind : Pick(base, G, "wind"),
                   vis : Pick(base, G, "vis"),
                   curwx : Pick(base, G, "curwx"),
                   skyc : Pick(base, G, "skyc"),
                   temp_dewp : Pick(base, G, "temp_dewp"),
                   altim : Pick(base, G, "altim"),
                   date : Pick(base, G, "date")] :
            /\ metar_text = [siteid |-> r.siteid, datetime |-> r.datetime,
                             wind |-> r.wind, vis |-> r.vis, curwx |-> r.curwx,
                             skyc |-> r.skyc, temp_dewp |-> r.temp_dewp,
                             altim |-> r.altim]
            /\ year = r.date[1]
            /\ month = r.date[2]
    /\ pc = "parse"
    /\ tree = NoTree
    /\ fields = Fields
    /\ exc = "none"
    /\ BatchIdle
    /\ FileIdle

(***************************************************************************)
(* parse_metar as one function of its arguments: [exc, metar], where exc   *)
(* is the exception the call ends in ("none" when it returns) and metar    *)
(* the record returned.                                                    *)
(***************************************************************************)
SkyFields(s) ==
    [skyc1 |-> s.skyc[1], skylev1 |-> s.skylev[1],
     skyc2 |-> s.skyc[2], skylev2 |-> s.skylev[2],
     skyc3 |-> s.skyc[3], skylev3 |-> s.skylev[3],
     skyc4 |-> s.skyc[4], skylev4 |-> s.skylev[4]]

parse_metar(text, y, m) ==
    LET p == parse(text)
        tr == p.tree
        v == DecodeVisibility(tr)
        s == DecodeSkyCover(tr)
        a == DecodeAltimeter(tr)
    IN  IF ~p.ok THEN [exc |-> "ParseError", metar |-> Fields]
        ELSE IF v.exc # "none" THEN [exc |-> v.exc, metar |-> Fields]
        ELSE IF s.exc # "none" THEN [exc |-> s.exc, metar |-> Fields]
        ELSE IF a.exc # "none" THEN [exc |-> a.exc, metar |-> Fields]
        ELSE [exc |-> "none",
              metar |-> DecodeStation(tr)
                        @@ [date_time |-> DecodeDateTime(tr, y, m)]
                        @@ DecodeWind(tr)
                        @@ [visibility |-> v.visibility]
                        @@ DecodeCurWx(tr)
                        @@ SkyFields(s)
                        @@ [cloudcover |-> DecodeCloudCover(tr)]
                        @@ DecodeTempDewp(tr)
                        @@ [altimeter |-> a.altimeter]]

(***************************************************************************)
(* parse_metar, block by block.  An exception that a block lets out ends   *)
(* the call: pc = "raised" and exc names it.                               *)
(***************************************************************************)
Input == <<metar_text, year, month>>

\* a block that ran to its end: its locals are set, the next block follows
Continue(locals, next) ==
    /\ fields' = locals @@ fields
    /\ pc' = next
    /\ exc' = "none"

\* a block that lets an exception out
Raise(e) ==
    /\ pc' = "raised"
    /\ exc' = e
    /\ fields' = fields

\* ParseReport going on with the groups found when the tokenizer fails
ParseReportLenient ==
    /\ pc = "parse"
    /\ tree' = metar_text
    /\ Continue(Fields, "station")
    /\ UNCHANGED <<Input, batch_vars, file_vars>>

\* tree = parse(metar_text)
ParseReport ==
    /\ pc = "parse"
    /\ IF parse(metar_text).ok
       THEN /\ tree' = parse(metar_text).tree
            /\ Continue(Fields, "station")
       ELSE /\ tree' = tree
            /\ Raise("ParseError")
    /\ UNCHANGED <<Input, batch_vars, file_vars>>

\* LookupStation without the except KeyError clause
LookupStationUncaught ==
    /\ pc = "station"
    /\ IF Strip(tree.siteid) \in DOMAIN station_info
       THEN Continue(DecodeStation(tree), "datetime")
       ELSE Raise("KeyError")
    /\ UNCHANGED <<Input, tree, batch_vars, file_vars>>

LookupStation ==
    /\ pc = "station"
    /\ Continue(DecodeStation(tree), "datetime")
    /\ UNCHANGED <<Input, tree, batch_vars, file_vars>>

SetDateTime ==
    /\ pc = "datetime"
    /\ Continue([date_time |-> DecodeDateTime(tree, year, month)], "wind")
    /\ UNCHANGED <<Input, tree, batch_vars, file_vars>>

SetWind ==
    /\ pc = "wind"
    /\ Continue(DecodeWind(tree), "vis")
    /\ UNCHANGED <<Input, tree, batch_vars, file_vars>>

SetVisibility ==
    /\ pc = "vis"
    /\ LET v == DecodeVisibility(tree)
       IN  IF v.exc = "none" THEN Continue([visibility |-> v.visibility], "curwx")
           ELSE Raise(v.exc)
    /\ UNCHANGED <<Input, tree, batch_vars, file_vars>>

SetWeather ==
    /\ pc = "curwx"
    /\ Continue(DecodeCurWx(tree), "skyc")
    /\ UNCHANGED <<Input, tree, batch_vars, file_vars>>

SetSkyCover ==
    /\ pc = "skyc"
    /\ LET s == DecodeSkyCover(tree)
       IN  IF s.exc = "none"
           THEN Continue(SkyFields(s), "cloudcover")
           ELSE Raise(s.exc)
    /\ UNCHANGED <<Input, tree, batch_vars, file_vars>>

SetCloudCover ==
    /\ pc = "cloudcover"
    /\ Continue([cloudcover |-> DecodeCloudCover(tree)], "temp_dewp")
    /\ UNCHANGED <<Input, tree, batch_vars, file_vars>>

SetTempDewp ==
    /\ pc = "temp_dewp"
    /\ Continue(DecodeTempDewp(tree), "altim")
    /\ UNCHANGED <<Input, tree, batch_vars, file_vars>>

SetAltimeter ==
    /\ pc = "altim"
    /\ LET a == DecodeAltimeter(tree)
       IN  IF a.exc = "none" THEN Continue([altimeter |-> a.altimeter], "return")
           ELSE Raise(a.exc)
    /\ UNCHANGED <<Input, tree, batch_vars, file_vars>>

\* return Metar(...)
ReturnMetar ==
    /\ pc = "return"
    /\ pc' = "returned"
    /\ UNCHANGED <<Input, tree, fields, exc, batch_vars, file_vars>>

Next ==
    \/ ParseReport
    \/ LookupStation
    \/ SetDateTime
    \/ SetWind
    \/ SetVisibility
    \/ SetWeather
    \/ SetSkyCover
    \/ SetCloudCover
    \/ SetTempDewp
    \/ SetAltimeter
    \/ ReturnMetar

Spec == Init /\ [][Next]_vars

(***************************************************************************)
(* _metars_to_dataframe: the reports of one call, the clock, and the table *)
(* operations of pandas that the function uses.  A table is the sequence   *)
(* of its rows; a row is a record of its columns.                          *)
(***************************************************************************)
\* how many reports one call is given
MaxReports == 3

\* how many months the clock may advance while one call runs
MaxTicks == 1

BatchReport(siteid, datetime, vis, temp_dewp) ==
    [siteid |-> siteid, datetime |-> datetime, wind |-> BaseReport.wind,
     vis |-> vis, curwx |-> BaseReport.curwx, skyc |-> BaseReport.skyc,
     temp_dewp |-> temp_dewp, altim |-> BaseReport.altim]

\* two reports of one station and time, a report the tokenizer rejects, one
\* of the same station on a day that February lacks, two reports of an
\* unknown station without a time, and a visibility that raises ValueError
BatchReports ==
    {BatchReport(<<"K", "D", "E", "N">>, BaseReport.datetime, BaseReport.vis,
                 BaseReport.temp_dewp),
     BatchReport(<<"K", "D", "E", "N">>, BaseReport.datetime, BaseReport.vis,
                 TempDewpGroup(<<"M", "0", "5">>, <<"M", "1", "0">>)),
     BatchReport(<<"K">>, BaseReport.datetime, BaseReport.vis, BaseReport.temp_dewp),
     BatchReport(<<"K", "D", "E", "N">>, <<" ", "2", "9", "1", "2", "0", "0", "Z">>,
                 BaseReport.vis, BaseReport.temp_dewp),
     BatchReport(<<"E", "G", "L", "L">>, <<>>, BaseReport.vis, BaseReport.temp_dewp),
     BatchReport(<<"E", "G", "L", "L">>, <<" ", "/", "/", "/", "/", "/", "/", "Z">>,
                 BaseReport.vis, TempDewpGroup(<<"5">>, <<"3">>)),
     BatchReport(<<"K", "D", "E", "N">>, BaseReport.datetime, <<" ", "/", "/", "/">>,
                 BaseReport.temp_dewp)}

\* year=None or year=2019, month=None or month=2
YearArgs == {NaN, Val(2019)}

MonthArgs == {NaN, Val(2)}

\* datetime.now() as <<year, month>>; the clock starts in December 2021
ClockStart == <<2021, 12>>

NextMonth(c) == IF c[2] = 12 THEN <<c[1] + 1, 1>> ELSE <<c[1], c[2] + 1>>

MonthsSince(c) == (c[1] - ClockStart[1]) * 12 + c[2] - ClockStart[2]

\* df.rename(columns=...)
ColumnOf(f) ==
    CASE f = "skyc1" -> "low_cloud_type"
      [] f = "skylev1" -> "low_cloud_level"
      [] f = "skyc2" -> "medium_cloud_type"
      [] f = "skylev2" -> "medium_cloud_level"
      [] f = "skyc3" -> "high_cloud_type"
      [] f = "skylev3" -> "high_cloud_level"
      [] f = "skyc4" -> "highest_cloud_type"
      [] f = "skylev4" -> "highest_cloud_level"
      [] f = "cloudcover" -> "cloud_coverage"
      [] f = "temperature" -> "air_temperature"
      [] f = "dewpoint" -> "dew_point_temperature"
      [] OTHER -> f

Rename(row) ==
    [c \in {ColumnOf(f) : f \in DOMAIN row} |->
        row[CHOOSE f \in DOMAIN row : ColumnOf(f) = c]]

\* pd.DataFrame(metars) with its columns renamed
DataFrame(records) == [i \in 1..Len(records) |-> Rename(records[i])]

\* the columns that drop_duplicates compares; missing equals missing
Subset(row) == <<row.date_time, row.latitude, row.longitude>>

\* df.drop_duplicates(subset=[...], keep='first')
RECURSIVE DropDuplicatesKeepFirst(_)
DropDuplicatesKeepFirst(rows) ==
    IF rows = <<>> THEN <<>>
    ELSE IF \E j \in 1..(Len(rows) - 1) : Subset(rows[j]) = Subset(rows[Len(rows)])
    THEN DropDuplicatesKeepFirst(SubSeq(rows, 1, Len(rows) - 1))
    ELSE Append(DropDuplicatesKeepFirst(SubSeq(rows, 1, Len(rows) - 1)), rows[Len(rows)])

\* df.drop_duplicates(subset=[...], keep='last')
RECURSIVE DropDuplicates(_)
DropDuplicates(rows) ==
    IF rows = <<>> THEN <<>>
    ELSE IF \E j \in 2..Len(rows) : Subset(rows[j]) = Subset(Head(rows))
    THEN DropDuplicates(Tail(rows))
    ELSE <<Head(rows)>> \o DropDuplicates(Tail(rows))

\* round(2) of an altimeter in ten-thousandths of inHg: to the nearest
\* hundredth, a tie going to the even hundredth
Round2(a) ==
    LET unit == InHgUnit \div 100
        q == a \div unit
        r == a % unit
    IN  IF 2 * r > unit \/ (2 * r = unit /\ q % 2 = 1) THEN (q + 1) * unit
        ELSE q * unit

\* df['altimeter'] = df.altimeter.round(2)
RoundAltimeter(rows) ==
    [i \in 1..Len(rows) |->
        IF IsNaN(rows[i].altimeter) THEN rows[i]
        ELSE [rows[i] EXCEPT !.altimeter = Val(Round2(Get(rows[i].altimeter)))]]

(***************************************************************************)
(* _metars_to_dataframe, block by block.  The columns that the function    *)
(* derives with metpy.calc (sea-level pressure, wind components) are not   *)
(* part of the table here.                                                 *)
(***************************************************************************)
BatchInit ==
    /\ \E n \in 0..MaxReports : metar_iter \in [1..n -> BatchReports]
    /\ year_arg \in YearArgs
    /\ month_arg \in MonthArgs
    /\ now = ClockStart
    /\ df_year = year_arg
    /\ df_month = month_arg
    /\ consumed = 0
    /\ metars = <<>>
    /\ df = <<>>
    /\ df_pc = "default"
    /\ df_exc = "none"
    /\ CallIdle
    /\ FileIdle

BatchRunning == df_pc \notin {"returned", "raised"}

\* the clock goes on to the next month while the call runs
Tick ==
    /\ BatchRunning
    /\ MonthsSince(now) < MaxTicks
    /\ now' = NextMonth(now)
    /\ UNCHANGED <<metar_iter, year_arg, month_arg, df_year, df_month, consumed,
                   metars, df, df_pc, df_exc, call_vars, file_vars>>

\* the defaulting with both values taken from the clock when either is None
DefaultDateBoth ==
    /\ df_pc = "default"
    /\ IF IsNaN(df_year) \/ IsNaN(df_month)
       THEN df_year' = Val(now[1]) /\ df_month' = Val(now[2])
       ELSE UNCHANGED <<df_year, df_month>>
    /\ df_pc' = "loop"
    /\ UNCHANGED <<metar_iter, year_arg, month_arg, now, consumed, metars, df,
                   df_exc, call_vars, file_vars>>

\* if year is None or month is None: now = datetime.now(); ...
DefaultDate ==
    /\ df_pc = "default"
    /\ df_year' = IF IsNaN(df_year) THEN Val(now[1]) ELSE df_year
    /\ df_month' = IF IsNaN(df_month) THEN Val(now[2]) ELSE df_month
    /\ df_pc' = "loop"
    /\ UNCHANGED <<metar_iter, year_arg, month_arg, now, consumed, metars, df,
                   df_exc, call_vars, file_vars>>

\* one turn of the loop: parse_metar under contextlib.suppress(ParseError)
ParseNext ==
    /\ df_pc = "loop"
    /\ consumed < Len(metar_iter)
    /\ LET r == parse_metar(metar_iter[consumed + 1], Get(df_year), Get(df_month))
       IN  IF r.exc = "none"
           THEN /\ metars' = Append(metars, r.metar)
                /\ consumed' = consumed + 1
                /\ UNCHANGED <<df_pc, df_exc>>
           ELSE IF r.exc = "ParseError"
           THEN /\ consumed' = consumed + 1
                /\ UNCHANGED <<metars, df_pc, df_exc>>
           ELSE /\ df_pc' = "raised"
                /\ df_exc' = r.exc
                /\ UNCHANGED <<metars, consumed>>
    /\ UNCHANGED <<metar_iter, year_arg, month_arg, now, df_year, df_month, df,
                   call_vars, file_vars>>

\* pd.DataFrame(metars), set_index('station_id') and rename; a table made
\* of no record has no column, and set_index raises KeyError
MakeFrame ==
    /\ df_pc = "loop"
    /\ consumed = Len(metar_iter)
    /\ IF metars = <<>>
       THEN /\ df_pc' = "raised"
            /\ df_exc' = "KeyError"
            /\ UNCHANGED df
       ELSE /\ df' = DataFrame(metars)
            /\ df_pc' = "dedup"
            /\ UNCHANGED df_exc
    /\ UNCHANGED <<metar_iter, year_arg, month_arg, now, df_year, df_month, consumed,
                   metars, call_vars, file_vars>>

\* df.drop_duplicates(subset=['date_time', 'latitude', 'longitude'], keep='last')
DropDuplicateRows ==
    /\ df_pc = "dedup"
    /\ df' = DropDuplicates(df)
    /\ df_pc' = "round"
    /\ UNCHANGED <<metar_iter, year_arg, month_arg, now, df_year, df_month, consumed,
                   metars, df_exc, call_vars, file_vars>>

\* the altimeter rounded to two decimals; return df
RoundAndReturn ==
    /\ df_pc = "round"
    /\ df' = RoundAltimeter(df)
    /\ df_pc' = "returned"
    /\ UNCHANGED <<metar_iter, year_arg, month_arg, now, df_year, df_month, consumed,
                   metars, df_exc, call_vars, file_vars>>

BatchNext ==
    \/ Tick
    \/ DefaultDate
    \/ ParseNext
    \/ MakeFrame
    \/ DropDuplicateRows
    \/ RoundAndReturn

BatchSpec == BatchInit /\ [][BatchNext]_vars

(***************************************************************************)
(* parse_metar_file: the lines of the file, the generator full_metars and  *)
(* the length filter.  The reports that pass the filter are the metar_iter *)
(* of _metars_to_dataframe.                                                *)
(***************************************************************************)
\* how many lines the file has
MaxLines == 4

\* ' '.join(words)
RECURSIVE Join(_)
Join(words) ==
    IF words = <<>> THEN <<>>
    ELSE IF Len(words) = 1 THEN words[1]
    ELSE words[1] \o <<" ">> \o Join(Tail(words))

StartsWith(s, pre) == Len(s) >= Len(pre) /\ SubSeq(s, 1, Len(pre)) = pre

\* the prefix of a continuation line
prefix == <<" ", " ", " ", " ", " ">>

\* a report must be longer than this to be handed to the parser
MinLength == 25

Remarks == <<"R", "M", "K", " ", "A", "O", "2">>

\* 'KDEN 121853Z 28015KT 10SM', which is 25 characters long
ShortReport ==
    Join(<<BaseReport.siteid, Strip(BaseReport.datetime), BaseReport.wind.text,
           Strip(BaseReport.vis)>>)

\* a whole report on one line, the 25 characters with and without more
\* blanks around them, a 20-character line, a continuation line, a line
\* indented by 4 blanks only, and two blank lines
FileLines ==
    {ShortReport \o BaseReport.skyc \o BaseReport.altim \o <<"\n">>,
     ShortReport,
     ShortReport \o <<" ", "\n">>,
     Join(<<<<"K", "L", "O", "T">>, Strip(BaseReport.datetime), BaseReport.wind.text>>)
        \o <<"\n">>,
     prefix \o Remarks \o <<"\n">>,
     SubSeq(prefix, 1, 4) \o Remarks \o <<"\n">>,
     <<"\n">>,
     <<" ", " ", "\n">>}

FileInit ==
    /\ \E n \in 0..MaxLines : myfile \in [1..n -> FileLines]
    /\ pos = 0
    /\ tmp = <<>>
    /\ yielded = <<>>
    /\ passed = <<>>
    /\ file_pc = "loop"
    /\ CallIdle
    /\ BatchIdle

\* yield report: the filter hands it on when len(m) > 25
Yield(report) ==
    /\ yielded' = Append(yielded, report)
    /\ passed' = IF Len(report) > MinLength THEN Append(passed, report) ELSE passed

\* one turn of the loop, with a blank line ending the report before it
NextLineBlankEnds ==
    /\ file_pc = "loop"
    /\ pos < Len(myfile)
    /\ pos' = pos + 1
    /\ LET i == myfile[pos + 1]
       IN  IF (Strip(i) = <<>> \/ ~StartsWith(i, prefix)) /\ tmp # <<>>
           THEN /\ Yield(Join(tmp))
                /\ tmp' = IF Strip(i) = <<>> THEN <<>> ELSE <<Strip(i)>>
           ELSE /\ tmp' = IF Strip(i) = <<>> THEN tmp ELSE Append(tmp, Strip(i))
                /\ UNCHANGED <<yielded, passed>>
    /\ UNCHANGED <<myfile, file_pc, call_vars, batch_vars>>

\* one turn of the loop of full_metars
NextLine ==
    /\ file_pc = "loop"
    /\ pos < Len(myfile)
    /\ pos' = pos + 1
    /\ LET i == myfile[pos + 1]
       IN  IF Strip(i) = <<>>
           THEN UNCHANGED <<tmp, yielded, passed>>
           ELSE IF ~StartsWith(i, prefix) /\ tmp # <<>>
           THEN /\ Yield(Join(tmp))
                /\ tmp' = <<Strip(i)>>
           ELSE /\ tmp' = Append(tmp, Strip(i))
                /\ UNCHANGED <<yielded, passed>>
    /\ UNCHANGED <<myfile, file_pc, call_vars, batch_vars>>

\* the end of the file: the leftovers are yielded
EndOfFile ==
    /\ file_pc = "loop"
    /\ pos = Len(myfile)
    /\ IF tmp # <<>>
       THEN Yield(Join(tmp))
       ELSE UNCHANGED <<yielded, passed>>
    /\ tmp' = tmp
    /\ file_pc' = "done"
    /\ UNCHANGED <<myfile, pos, call_vars, batch_vars>>

FileNext ==
    \/ NextLine
    \/ EndOfFile

FileSpec == FileInit /\ [][FileNext]_vars

(***************************************************************************)
(* Where a call stands.                                                    *)
(***************************************************************************)
Returned == pc = "returned"

Raised == pc = "raised"

Ended == Returned \/ Raised

\* the local f of parse_metar has been assigned
Assigned(f) == f \in DOMAIN fields

\* the wind block has run
WindActed == Assigned("wind_speed")

\* the visibility block has run: to its end, or to an exception
VisRaised == Raised /\ WindActed /\ ~Assigned("visibility")

VisActed == Assigned("visibility") \/ VisRaised

\* the stepwise call and the function agree on how a call ends
StepsAgree ==
    /\ Returned => /\ parse_metar(metar_text, year, month).exc = "none"
                   /\ parse_metar(metar_text, year, month).metar = fields
    /\ Raised => parse_metar(metar_text, year, month).exc = exc

(***************************************************************************)
(* The shapes of text the statements below speak of.                       *)
(***************************************************************************)
\* a non-empty run of decimal digits
IsNumeral(s) == s # <<>> /\ \A i \in 1..Len(s) : IsDigit(s[i])

\* a non-empty run of '/'
AllFiller(s) == s # <<>> /\ \A i \in 1..Len(s) : s[i] = "/"

\* N/D with D not zero
IsFraction(tok) ==
    LET nd == SplitOn(tok, "/")
    IN  Len(nd) = 2 /\ IsNumeral(nd[1]) /\ IsNumeral(nd[2]) /\ DigitsVal(nd[2]) > 0

\* the text before the SM suffix
SMBody(text) == Strip(DropLast(text, 2))

\* 'W N/D', 'N/D' or 'W'
SMForm(b) ==
    LET toks == Split(b)
    IN  \/ Len(toks) = 1 /\ (IsNumeral(toks[1]) \/ IsFraction(toks[1]))
        \/ Len(toks) = 2 /\ IsNumeral(toks[1]) /\ IsFraction(toks[2])

\* W, N and D of a text of that form, an absent part counting as 0 (0/1)
SMWhole(b) == IF IsNumeral(Split(b)[1]) THEN DigitsVal(Split(b)[1]) ELSE 0

SMFraction(b) ==
    LET toks == Split(b)
        last == toks[Len(toks)]
    IN  IF IsFraction(last)
        THEN <<DigitsVal(SplitOn(last, "/")[1]), DigitsVal(SplitOn(last, "/")[2])>>
        ELSE <<0, 1>>

WellFormedDateTime(text) ==
    LET b == Strip(text)
    IN  Len(b) = 7 /\ b[7] = "Z" /\ IsNumeral(SubSeq(b, 1, 6))

WellFormedWind(w) ==
    /\ \/ WindVariable(w)
       \/ Len(w.wind_dir) = 3 /\ IsNumeral(w.wind_dir)
    /\ Len(w.wind_spd) \in {2, 3} /\ IsNumeral(w.wind_spd)
    /\ ~Contains(<<"/">>, w.text)

WellFormedVisibility(text) ==
    LET b == Strip(text)
    IN  \/ b = <<"C", "A", "V", "O", "K">>
        \/ /\ IsNumeral(Slice(b, 0, 4)) /\ Len(b) >= 4
           /\ SliceFrom(b, 4) \in {<<>>, <<"N", "D", "V">>}
        \/ EndsWith(b, <<"S", "M">>) /\ SMForm(SMBody(b))

WellFormedLayer(tok) ==
    \/ tok \in {<<"C", "L", "R">>, <<"S", "K", "C">>, <<"N", "S", "C">>,
                <<"N", "C", "D">>}
    \/ /\ Slice(tok, 0, 3) \in {<<"F", "E", "W">>, <<"S", "C", "T">>,
                                <<"B", "K", "N">>, <<"O", "V", "C">>}
       /\ IsNumeral(Slice(tok, 3, 6)) \/ Slice(tok, 3, 6) = <<"/", "/", "/">>
       /\ Len(tok) >= 6
       /\ SliceFrom(tok, 6) \in {<<>>, <<"C", "B">>, <<"T", "C", "U">>}
    \/ /\ Slice(tok, 0, 2) = <<"V", "V">>
       /\ Len(tok) = 5
       /\ IsNumeral(SliceFrom(tok, 2)) \/ SliceFrom(tok, 2) = <<"/", "/", "/">>

\* a sky-cover group that is present and not a run of well-formed layers
GarbledSkyCover(text) ==
    /\ Strip(text) # <<>>
    /\ \E i \in 1..Len(Split(text)) : ~WellFormedLayer(Split(text)[i])

(***************************************************************************)
(* C1.  For every report the tokenizer accepts, parse_metar returns a      *)
(* record and raises nothing: a call that has ended and whose report was   *)
(* accepted has returned.  The visibility, vertical-visibility and         *)
(* altimeter conversions are outside any try block, so this fails.         *)
(***************************************************************************)
C1_OnlyParseError == (Ended /\ parse(metar_text).ok) => (Returned /\ exc = "none")

(***************************************************************************)
(* C2.  Field isolation: with a station id the tokenizer accepts, a        *)
(* well-formed date/time, wind and visibility group and a garbled          *)
(* sky-cover group, the call returns, and station_id, date_time,           *)
(* wind_direction, wind_speed and visibility are what they are for the     *)
(* same report with a well-formed sky-cover group.  A sky-cover group that *)
(* starts with VV and goes on with non-numeric text raises ValueError, so  *)
(* this fails.                                                             *)
(***************************************************************************)
C2_FieldIsolation ==
    (/\ Ended
     /\ parse(metar_text).ok
     /\ WellFormedDateTime(metar_text.datetime)
     /\ WellFormedWind(metar_text.wind)
     /\ WellFormedVisibility(metar_text.vis)
     /\ GarbledSkyCover(metar_text.skyc))
    => LET ref == [metar_text EXCEPT !.skyc = BaseReport.skyc]
       IN  /\ Returned
           /\ fields.station_id = DecodeStation(ref).station_id
           /\ fields.date_time = DecodeDateTime(ref, year, month)
           /\ fields.wind_direction = DecodeWind(ref).wind_direction
           /\ fields.wind_speed = DecodeWind(ref).wind_speed
           /\ fields.visibility = DecodeVisibility(ref).visibility

(***************************************************************************)
(* C4.  A report shorter than a station id, the empty report among them,   *)
(* ends in ParseError once the tokenizer has run: the call never returns   *)
(* and no field of a record is ever set.                                   *)
(***************************************************************************)
C4_ShortReportIsParseError ==
    (pc # "parse" /\ Len(ReportText(metar_text)) < SiteIdLen)
    => (Raised /\ exc = "ParseError" /\ fields = Fields)

C4_Witness == Raised /\ exc = "ParseError" /\ ReportText(metar_text) = <<>>

C6_WindAllOrNothing ==
    /\ WindActed =>
         LET w == metar_text.wind
             variable == w.wind_dir \in {<<"V", "R", "B">>, <<"V", "A", "R">>}
             fails == (~variable /\ ~PyInt(w.wind_dir).ok) \/ ~PyInt(w.wind_spd).ok
         IN  /\ fails => IsNaN(fields.wind_direction) /\ IsNaN(fields.wind_speed)
             /\ ~IsNaN(fields.wind_direction) => ~IsNaN(fields.wind_speed)
    /\ (Raised /\ exc # "ParseError") => WindActed
    /\ pc \in {"vis", "curwx", "skyc", "cloudcover", "temp_dewp", "altim",
               "return", "returned"} => WindActed

C6_Witness ==
    /\ pc = "vis"
    /\ ~WindMissing(metar_text.wind)
    /\ PyInt(metar_text.wind.wind_dir).ok
    /\ ~PyInt(metar_text.wind.wind_spd).ok
    /\ IsNaN(fields.wind_direction)
    /\ IsNaN(fields.wind_speed)

(***************************************************************************)
(* C7.  Visibility in statute miles: a span that ends with SM and whose    *)
(* text before SM is 'W N/D', 'N/D' or 'W' gives (W + N/D) miles in        *)
(* metres, whatever the later rules would make of the span: with           *)
(* visibility v = a/b metres, a * D * 125 = (W * D + N) * 201168 * b.      *)
(***************************************************************************)
C7_StatuteMiles ==
    (/\ VisActed
     /\ EndsWith(metar_text.vis, <<"S", "M">>)
     /\ SMForm(SMBody(metar_text.vis)))
    => /\ Assigned("visibility")
       /\ ~IsNaN(fields.visibility)
       /\ LET v == Get(fields.visibility)
              W == SMWhole(SMBody(metar_text.vis))
              N == SMFraction(SMBody(metar_text.vis))[1]
              D == SMFraction(SMBody(metar_text.vis))[2]
          IN  v[1] * (D * 125) = ((W * D + N) * 201168) * v[2]

C7_Witness ==
    /\ Assigned("visibility")
    /\ metar_text.vis = <<" ", "1", " ", "1", "/", "4", "S", "M">>
    /\ fields.visibility = Val(<<50292, 25>>)

(***************************************************************************)
(* C8.  Visibility, CAVOK: a span that holds CAVOK and does not end with   *)
(* SM gives exactly 10000 metres, whatever else it holds.                  *)
(***************************************************************************)
C8_Cavok ==
    (/\ VisActed
     /\ Contains(<<"C", "A", "V", "O", "K">>, metar_text.vis)
     /\ ~EndsWith(metar_text.vis, <<"S", "M">>))
    => Assigned("visibility") /\ fields.visibility = Val(<<10000, 1>>)

C8_Witness ==
    /\ Assigned("visibility")
    /\ metar_text.vis = <<" ", "C", "A", "V", "O", "K", "/", "/", "/", "/">>
    /\ fields.visibility = Val(<<10000, 1>>)

(***************************************************************************)
(* C9.  Visibility, missing: a span that is empty, or that holds only '/'  *)
(* characters between its surrounding blanks, gives a missing visibility   *)
(* and no exception.  The code takes only a run of exactly four '/' as     *)
(* filler; any other run reaches int() and raises ValueError.              *)
(***************************************************************************)
C9_FillerIsMissing ==
    (VisActed /\ (metar_text.vis = <<>> \/ AllFiller(Strip(metar_text.vis))))
    => Assigned("visibility") /\ IsNaN(fields.visibility)

(***************************************************************************)
(* C10.  Visibility in metres: a span that does not end with SM, holds no  *)
(* CAVOK, is neither empty nor all filler, and whose first 4 characters    *)
(* (blanks around the span removed) are a number, gives that number of     *)
(* metres; what follows the fourth character is ignored.                   *)
(***************************************************************************)
C10_Metres ==
    (/\ VisActed
     /\ ~EndsWith(metar_text.vis, <<"S", "M">>)
     /\ ~Contains(<<"C", "A", "V", "O", "K">>, metar_text.vis)
     /\ metar_text.vis # <<>>
     /\ ~AllFiller(Strip(metar_text.vis))
     /\ IsNumeral(Slice(Strip(metar_text.vis), 0, 4)))
    => /\ Assigned("visibility")
       /\ fields.visibility = Val(<<DigitsVal(Slice(Strip(metar_text.vis), 0, 4)), 1>>)

C10_Witness ==
    /\ Assigned("visibility")
    /\ metar_text.vis = <<" ", "9", "9", "9", "9", "N", "D", "V">>
    /\ fields.visibility = Val(<<9999, 1>>)

(***************************************************************************)
(* C11.  Present weather, missing: a span that is empty, or that holds     *)
(* only '/' characters between its surrounding blanks, gives three missing *)
(* weather codes and three symbols 0.  The code takes only a run of        *)
(* exactly two '/' as filler; any other run is kept as a weather code.     *)
(***************************************************************************)
WeatherActed == Assigned("current_wx1")

C11_WeatherMissing ==
    (WeatherActed /\ (metar_text.curwx = <<>> \/ AllFiller(Strip(metar_text.curwx))))
    => /\ IsNaN(fields.current_wx1) /\ IsNaN(fields.current_wx2)
       /\ IsNaN(fields.current_wx3)
       /\ fields.current_wx1_symbol = 0 /\ fields.current_wx2_symbol = 0
       /\ fields.current_wx3_symbol = 0

(***************************************************************************)
(* C12.  Present weather, slots and symbols: a span of k codes separated   *)
(* by blanks, 1 <= k <= 3, that is not filler, puts its i-th code in slot  *)
(* i and leaves slots k+1..3 missing; the symbol of a slot is the table's  *)
(* number for its code, and 0 when the slot is missing or the code is not  *)
(* in the table.  In every record a missing slot has symbol 0.             *)
(***************************************************************************)
CurrentWx(i) ==
    IF i = 1 THEN fields.current_wx1
    ELSE IF i = 2 THEN fields.current_wx2 ELSE fields.current_wx3

CurrentWxSymbol(i) ==
    IF i = 1 THEN fields.current_wx1_symbol
    ELSE IF i = 2 THEN fields.current_wx2_symbol ELSE fields.current_wx3_symbol

WeatherCodes == Split(Strip(metar_text.curwx))

C12_WeatherSlots ==
    WeatherActed =>
      /\ \A i \in 1..3 : IsNaN(CurrentWx(i)) => CurrentWxSymbol(i) = 0
      /\ (/\ ~AllFiller(Strip(metar_text.curwx))
          /\ Len(WeatherCodes) \in 1..3)
         => \A i \in 1..3 :
              IF i <= Len(WeatherCodes)
              THEN /\ CurrentWx(i) = Val(WeatherCodes[i])
                   /\ CurrentWxSymbol(i) =
                        IF WeatherCodes[i] \in DOMAIN wx_code_map
                        THEN wx_code_map[WeatherCodes[i]] ELSE 0
              ELSE IsNaN(CurrentWx(i)) /\ CurrentWxSymbol(i) = 0

C12_Witness ==
    /\ WeatherActed
    /\ metar_text.curwx = <<" ", "R", "A", " ", "B", "R">>
    /\ fields.current_wx1 = Val(<<"R", "A">>) /\ fields.current_wx1_symbol = 63
    /\ fields.current_wx2 = Val(<<"B", "R">>) /\ fields.current_wx2_symbol = 10
    /\ IsNaN(fields.current_wx3) /\ fields.current_wx3_symbol = 0

(***************************************************************************)
(* C13.  Sky cover, vertical visibility: when the sky-cover group begins   *)
(* with VV, the record holds one layer only: skyc1 is 'VV', skylev1 is 100 *)
(* times the number after VV, or missing when '///' follows, and skyc2..4  *)
(* and skylev2..4 are missing.                                             *)
(***************************************************************************)
SkyActed == Assigned("skyc1")

Skyc(i) ==
    IF i = 1 THEN fields.skyc1 ELSE IF i = 2 THEN fields.skyc2
    ELSE IF i = 3 THEN fields.skyc3 ELSE fields.skyc4

Skylev(i) ==
    IF i = 1 THEN fields.skylev1 ELSE IF i = 2 THEN fields.skylev2
    ELSE IF i = 3 THEN fields.skylev3 ELSE fields.skylev4

BeginsWithVV(text) == Slice(Strip(text), 0, 2) = <<"V", "V">>

C13_VerticalVisibility ==
    (SkyActed /\ BeginsWithVV(metar_text.skyc))
    => LET level == SliceFrom(Strip(metar_text.skyc), 2)
       IN  /\ Skyc(1) = Val(<<"V", "V">>)
           /\ IsNumeral(level) => Skylev(1) = Val(100 * DigitsVal(level))
           /\ AllFiller(level) => IsNaN(Skylev(1))
           /\ \A i \in 2..4 : IsNaN(Skyc(i)) /\ IsNaN(Skylev(i))

C13_Witness ==
    /\ SkyActed
    /\ metar_text.skyc = <<" ", "V", "V", "0", "0", "2">>
    /\ fields.skyc1 = Val(<<"V", "V">>) /\ fields.skylev1 = Val(200)
    /\ IsNaN(fields.skyc2) /\ IsNaN(fields.skylev2)


(***************************************************************************)
(* C14.  Sky cover, layers: when the sky-cover group does not begin with   *)
(* VV and has k tokens, then for i <= min(k, 4) skyc_i is the first three  *)
(* characters of token i, missing when they hold a '/', and skylev_i is    *)
(* 100 times the number in the rest of token i, missing when the rest      *)
(* holds a '/', is no number or is empty; each of the two is missing on    *)
(* its own.  For i > k both are missing, tokens after the fourth are       *)
(* ignored, and the sky block raises nothing.                              *)
(***************************************************************************)
SkyRaised == Raised /\ WeatherActed /\ ~SkyActed

SkyTokens == Split(Strip(metar_text.skyc))

C14_Layers ==
    ~BeginsWithVV(metar_text.skyc) =>
      /\ ~SkyRaised
      /\ SkyActed =>
           LET tokens == SkyTokens
           IN  \A i \in 1..4 :
                 IF i <= Len(tokens)
                 THEN /\ Skyc(i) =
                           IF Contains(<<"/">>, Slice(tokens[i], 0, 3)) THEN NaN
                           ELSE Val(Slice(tokens[i], 0, 3))
                      /\ Skylev(i) =
                           IF IsNumeral(SliceFrom(tokens[i], 3))
                           THEN Val(100 * DigitsVal(SliceFrom(tokens[i], 3)))
                           ELSE NaN
                 ELSE IsNaN(Skyc(i)) /\ IsNaN(Skylev(i))

C14_Witness ==
    /\ SkyActed
    /\ metar_text.skyc = <<" ", "F", "E", "W", "/", "/", "/">>
    /\ fields.skyc1 = Val(<<"F", "E", "W">>) /\ IsNaN(fields.skylev1)
    /\ IsNaN(fields.skyc2) /\ IsNaN(fields.skylev2)

(***************************************************************************)
(* C15.  Cloud coverage is read off the raw sky-cover text in a fixed      *)
(* order: OVC or VV anywhere gives 8; else BKN gives 6; else SCT gives 4;  *)
(* else FEW gives 2; else SKC, NCD, NSC or CLR, or CAVOK in the visibility *)
(* group, gives 0; else 10.  So FEW with OVC gives 8, SKC alone gives 0,   *)
(* an unrecognised group gives 10, and the value is always one of 0, 2, 4, *)
(* 6, 8, 10.                                                               *)
(***************************************************************************)
CloudActed == Assigned("cloudcover")

SkyHolds(word) == Contains(word, metar_text.skyc)

ClearSky ==
    \/ \E w \in {<<"S", "K", "C">>, <<"N", "C", "D">>, <<"N", "S", "C">>,
                 <<"C", "L", "R">>} : SkyHolds(w)
    \/ Contains(<<"C", "A", "V", "O", "K">>, metar_text.vis)

C15_WitnessCavok ==
    /\ CloudActed
    /\ metar_text.skyc = <<>>
    /\ Contains(<<"C", "A", "V", "O", "K">>, metar_text.vis)
    /\ fields.cloudcover = 0

(***************************************************************************)
(* C16.  Cloud coverage against the decoded layers.  As claimed: in every  *)
(* returned record in which at least one of skyc1..4 is a recognised cover *)
(* type, cloudcover is the greatest okta value of the record's recognised  *)
(* skyc1..4 (OVC and VV 8, BKN 6, SCT 4, FEW 2, SKC, NCD, NSC and CLR 0).  *)
(* This fails for a group of five layers: the fifth is not in the record   *)
(* but its type is in the raw text that cloudcover is read from.           *)
(***************************************************************************)
CoverTypes ==
    {<<"O", "V", "C">>, <<"V", "V">>, <<"B", "K", "N">>, <<"S", "C", "T">>,
     <<"F", "E", "W">>, <<"S", "K", "C">>, <<"N", "C", "D">>, <<"N", "S", "C">>,
     <<"C", "L", "R">>}

Okta(type) ==
    IF type \in {<<"O", "V", "C">>, <<"V", "V">>} THEN 8
    ELSE IF type = <<"B", "K", "N">> THEN 6
    ELSE IF type = <<"S", "C", "T">> THEN 4
    ELSE IF type = <<"F", "E", "W">> THEN 2
    ELSE 0

Max(S) == CHOOSE x \in S : \A y \in S : y <= x

RecognisedLayers == {i \in 1..4 : ~IsNaN(Skyc(i)) /\ Get(Skyc(i)) \in CoverTypes}

RecordOkta == Max({Okta(Get(Skyc(i))) : i \in RecognisedLayers})

C16_CloudCoverIsRecordMaximum ==
    (Returned /\ RecognisedLayers # {}) => fields.cloudcover = RecordOkta

(***************************************************************************)
(* C16, what the code does satisfy.  In every returned record whose        *)
(* sky-cover group is one vertical-visibility token, or any number of      *)
(* well-formed layer tokens, cloudcover is the greatest okta value of the  *)
(* types of all the tokens, those after the fourth included; it is the     *)
(* greatest okta value of the record's skyc1..4 when the group has at most *)
(* four tokens.                                                            *)
(***************************************************************************)
TokenType(tok) ==
    IF Slice(tok, 0, 2) = <<"V", "V">> THEN <<"V", "V">> ELSE Slice(tok, 0, 3)

WellFormedSkyCover ==
    /\ SkyTokens # <<>>
    /\ \A i \in 1..Len(SkyTokens) : WellFormedLayer(SkyTokens[i])
    /\ \A i \in 1..Len(SkyTokens) :
         Slice(SkyTokens[i], 0, 2) = <<"V", "V">> => Len(SkyTokens) = 1

GroupOkta == Max({Okta(TokenType(SkyTokens[i])) : i \in 1..Len(SkyTokens)})

C16_CloudCoverIsGroupMaximum ==
    (Returned /\ WellFormedSkyCover) =>
      /\ fields.cloudcover = GroupOkta
      /\ RecognisedLayers # {}
      /\ Len(SkyTokens) <= 4 => fields.cloudcover = RecordOkta

(***************************************************************************)
(* C17.  Temperature and dewpoint, value: when the group is empty or is    *)
(* the filler MM/MM, both are missing.  Otherwise each sub-token whose     *)
(* last two characters are a number gives that number, negated exactly     *)
(* when an M occurs anywhere in that sub-token (M05 gives -5, 05 gives 5). *)
(***************************************************************************)
TempActed == Assigned("temperature")

TempDewpFiller(text) == text = <<>> \/ Strip(text) = <<"M", "M", "/", "M", "M">>

\* the value claimed for one sub-token whose last two characters are a number
Magnitude(sub) == DigitsVal(TakeLast(sub, 2))

Signed(sub) == IF \E i \in 1..Len(sub) : sub[i] = "M" THEN 0 - Magnitude(sub) ELSE Magnitude(sub)

C17_TempDewpValue ==
    TempActed =>
      IF TempDewpFiller(metar_text.temp_dewp.text)
      THEN IsNaN(fields.temperature) /\ IsNaN(fields.dewpoint)
      ELSE /\ IsNumeral(TakeLast(metar_text.temp_dewp.temp, 2))
              => fields.temperature = Val(Signed(metar_text.temp_dewp.temp))
           /\ IsNumeral(TakeLast(metar_text.temp_dewp.dewp, 2))
              => fields.dewpoint = Val(Signed(metar_text.temp_dewp.dewp))

C17_Witness ==
    /\ TempActed
    /\ metar_text.temp_dewp = TempDewpGroup(<<"2", "0">>, <<"M", "0", "5">>)
    /\ fields.temperature = Val(20)
    /\ fields.dewpoint = Val(0 - 5)

(***************************************************************************)
(* C18.  Temperature and dewpoint fail apart: in a group that is neither   *)
(* empty nor the filler, a sub-token whose last two characters are no      *)
(* number makes its own field missing and leaves the other field its       *)
(* value; the block raises nothing.                                        *)
(***************************************************************************)
TempRaised == Raised /\ CloudActed /\ ~TempActed

C18_TempDewpIndependent ==
    /\ ~TempRaised
    /\ (TempActed /\ ~TempDewpFiller(metar_text.temp_dewp.text)) =>
         /\ IsNaN(fields.temperature) <=> ~IsNumeral(TakeLast(metar_text.temp_dewp.temp, 2))
         /\ IsNaN(fields.dewpoint) <=> ~IsNumeral(TakeLast(metar_text.temp_dewp.dewp, 2))

C18_Witness ==
    /\ TempActed
    /\ metar_text.temp_dewp = TempDewpGroup(<<"X", "X">>, <<"1", "0">>)
    /\ IsNaN(fields.temperature)
    /\ fields.dewpoint = Val(10)

(***************************************************************************)
(* C19.  Altimeter: an empty group gives a missing altimeter.  Otherwise,  *)
(* with n the number at characters 1 to 5 of the group without its         *)
(* surrounding blanks, the altimeter is n / 100 inHg when n > 1100 (2992   *)
(* gives 29.92) and n hPa converted to inHg when n <= 1100 (1013 gives     *)
(* about 29.92); 1100 itself is taken as hectopascals.  The altimeter is   *)
(* in ten-thousandths of an inch of mercury, and one hectopascal is        *)
(* between 295 and 296 of them.                                            *)
(***************************************************************************)
AltimActed == Assigned("altimeter")

AltimNumber == Slice(Strip(metar_text.altim), 1, 5)

C19_Altimeter ==
    AltimActed =>
      /\ metar_text.altim = <<>> => IsNaN(fields.altimeter)
      /\ (metar_text.altim # <<>> /\ IsNumeral(AltimNumber)) =>
           LET n == DigitsVal(AltimNumber)
               a == Get(fields.altimeter)
           IN  /\ ~IsNaN(fields.altimeter)
               /\ n > 1100 => a = 100 * n
               /\ n <= 1100 => 295 * n <= a /\ a <= 296 * n
               /\ n = 2992 => a = 299200
               /\ n = 1013 => 299100 <= a /\ a <= 299200

C19_Witness ==
    /\ AltimActed
    /\ metar_text.altim = <<" ", "Q", "1", "1", "0", "0">>
    /\ fields.altimeter = Val(324830)

(***************************************************************************)
(* C20.  Date and time: with the last character of the group dropped, the  *)
(* day, hour and minute are the numbers at [0:2], [2:4] and [4:7], and     *)
(* date_time is that day, hour and minute of the caller's year and month.  *)
(* When one of the three is no number (group absent or too short, other    *)
(* characters), or the day is not a day of that month, the hour is above   *)
(* 23 or the minute above 59, date_time is missing, the block raises       *)
(* nothing, and the call ends as it does with a valid date/time group,     *)
(* with every other field of the record the same.                          *)
(***************************************************************************)
DateActed == Assigned("date_time")

DateRaised == Raised /\ Assigned("station_id") /\ ~DateActed

\* the group without its last character and its surrounding blanks
DateDigits == Strip(DropLast(metar_text.datetime, 1))

DayText(b) == Slice(b, 0, 2)

HourText(b) == Slice(b, 2, 4)

MinuteText(b) == Slice(b, 4, 7)

DateTimeFails(b) ==
    \/ ~IsNumeral(DayText(b)) \/ ~IsNumeral(HourText(b)) \/ ~IsNumeral(MinuteText(b))
    \/ DigitsVal(DayText(b)) < 1
    \/ DigitsVal(DayText(b)) > DaysInMonth(year, month)
    \/ DigitsVal(HourText(b)) > 23
    \/ DigitsVal(MinuteText(b)) > 59

\* the same call with a valid date/time group in place of the report's
ValidDateTimeGroup == <<" ", "1", "2", "1", "8", "5", "3", "Z">>

WithValidDateTime ==
    parse_metar([metar_text EXCEPT !.datetime = ValidDateTimeGroup], year, month)

C20_DateTime ==
    LET b == DateDigits
    IN  /\ ~DateRaised
        /\ DateActed =>
             IF DateTimeFails(b) THEN IsNaN(fields.date_time)
             ELSE fields.date_time =
                    Val(<<year, month, DigitsVal(DayText(b)), DigitsVal(HourText(b)),
                          DigitsVal(MinuteText(b))>>)
        /\ (Ended /\ DateTimeFails(b)) =>
             LET valid == WithValidDateTime
             IN  /\ exc = valid.exc
                 /\ Returned =>
                      \A f \in DOMAIN fields \ {"date_time"} :
                         fields[f] = valid.metar[f]

C20_Witness ==
    /\ Returned
    /\ metar_text.datetime = <<" ", "2", "9", "1", "2", "0", "0", "Z">>
    /\ year = 2019 /\ month = 2
    /\ IsNaN(fields.date_time)
    /\ fields.wind_speed = Val(15)

(***************************************************************************)
(* C21.  Station lookup: station_id is the report's station id.  When it   *)
(* is a key of the station table, latitude, longitude and elevation are    *)
(* the three values of that entry; when it is not, all three are missing,  *)
(* the block raises nothing, and the call ends as it does for a known      *)
(* station, with every other field of the record the same.  The three are  *)
(* never partly present.                                                   *)
(***************************************************************************)
StationActed == Assigned("station_id")

StationRaised == Raised /\ exc # "ParseError" /\ ~StationActed

KnownStation == <<"K", "D", "E", "N">>

WithKnownStation ==
    parse_metar([metar_text EXCEPT !.siteid = KnownStation], year, month)

Geolocation == {"latitude", "longitude", "elevation"}

C21_StationLookup ==
    LET id == Strip(metar_text.siteid)
    IN  /\ ~StationRaised
        /\ StationActed =>
             /\ fields.station_id = id
             /\ (\A f \in Geolocation : IsNaN(fields[f]))
                \/ (\A f \in Geolocation : ~IsNaN(fields[f]))
             /\ IF id \in DOMAIN station_info
                THEN /\ fields.latitude = Val(station_info[id].latitude)
                     /\ fields.longitude = Val(station_info[id].longitude)
                     /\ fields.elevation = Val(station_info[id].altitude)
                ELSE \A f \in Geolocation : IsNaN(fields[f])
        /\ (Ended /\ StationActed /\ id \notin DOMAIN station_info) =>
             LET known == WithKnownStation
             IN  /\ exc = known.exc
                 /\ Returned =>
                      \A f \in DOMAIN fields \ (Geolocation \cup {"station_id"}) :
                         fields[f] = known.metar[f]

C21_Witness ==
    /\ Returned
    /\ metar_text.siteid = <<"E", "G", "L", "L">>
    /\ fields.station_id = <<"E", "G", "L", "L">>
    /\ IsNaN(fields.latitude) /\ IsNaN(fields.longitude) /\ IsNaN(fields.elevation)
    /\ fields.wind_speed = Val(15)

(***************************************************************************)
(* Where a call of _metars_to_dataframe stands.                            *)
(***************************************************************************)
BatchReturned == df_pc = "returned"

BatchRaised == df_pc = "raised"

BatchEnded == BatchReturned \/ BatchRaised

\* how parse_metar ends for report r of the call
Outcome(r) == parse_metar(r, Get(df_year), Get(df_month)).exc

(***************************************************************************)
(* C22.  Year and month defaulting: the defaulting step sets the year to   *)
(* the clock's year when the caller gave none and leaves a given year as   *)
(* it is, and the same for the month, each on its own; no later step       *)
(* changes either, and every record of the call that has a date_time has   *)
(* that year and month, whatever the clock does meanwhile.                 *)
(***************************************************************************)
DatedWith(record, y, m) ==
    IsNaN(record.date_time)
    \/ (Get(record.date_time)[1] = Get(y) /\ Get(record.date_time)[2] = Get(m))

C22_Defaulting ==
    [][/\ df_pc = "default" /\ df_pc' # "default" =>
            /\ df_year' = IF IsNaN(year_arg) THEN Val(now[1]) ELSE year_arg
            /\ df_month' = IF IsNaN(month_arg) THEN Val(now[2]) ELSE month_arg
       /\ df_pc # "default" => df_year' = df_year /\ df_month' = df_month
       /\ \A i \in 1..Len(metars') : DatedWith(metars'[i], df_year', df_month')]_vars

C22_Witness ==
    /\ BatchReturned
    /\ IsNaN(year_arg) /\ month_arg = Val(2)
    /\ now = <<2022, 1>>
    /\ df_year = Val(2021) /\ df_month = Val(2)
    /\ Len(metars) = 2
    /\ metars[1].date_time = Val(<<2021, 2, 12, 18, 53>>)
    /\ metars[2].date_time = Val(<<2021, 2, 12, 18, 53>>)

(***************************************************************************)
(* C23.  Skip and continue: in a call whose reports each either parse or   *)
(* end in ParseError, with at least one ending in ParseError, the call     *)
(* does not fail, every report is taken from the input, and the records    *)
(* are those of the reports that parsed, in input order.  This fails when  *)
(* no report parses: pd.DataFrame([]) has no column, and set_index raises  *)
(* KeyError.                                                               *)
(***************************************************************************)
Parses(r) == Outcome(r) = "none"

Rejected(r) == Outcome(r) = "ParseError"

SomeRejectedNoneRaises ==
    /\ \A i \in 1..Len(metar_iter) : Parses(metar_iter[i]) \/ Rejected(metar_iter[i])
    /\ \E i \in 1..Len(metar_iter) : Rejected(metar_iter[i])

\* the records of the reports that parse, in input order
ParsedRecords ==
    LET parsed == SelectSeq(metar_iter, Parses)
    IN  [i \in 1..Len(parsed) |->
            parse_metar(parsed[i], Get(df_year), Get(df_month)).metar]

C23_SkipAndContinue ==
    (BatchEnded /\ SomeRejectedNoneRaises) =>
      /\ BatchReturned
      /\ consumed = Len(metar_iter)
      /\ metars = ParsedRecords

(***************************************************************************)
(* C23, what the code does satisfy: the same, for a call in which at least *)
(* one report parses.                                                      *)
(***************************************************************************)
C23_SkipAndContinueSomeParsed ==
    (/\ BatchEnded /\ SomeRejectedNoneRaises
     /\ \E i \in 1..Len(metar_iter) : Parses(metar_iter[i])) =>
      /\ BatchReturned
      /\ consumed = Len(metar_iter)
      /\ metars = ParsedRecords
      /\ Len(metars) < Len(metar_iter)

(***************************************************************************)
(* C25.  Duplicate removal: once the duplicates are dropped, no two rows   *)
(* of the table have the same date_time, latitude and longitude (missing   *)
(* equal to missing); for every such triple among the records, the table   *)
(* holds the row of the last record with that triple; and when the triples *)
(* of the records are pairwise different, the table is all the records in  *)
(* input order.  The returned table is this one with the altimeter         *)
(* rounded.                                                                *)
(***************************************************************************)
Deduplicated == df_pc \in {"round", "returned"}

RecordTriple(record) == <<record.date_time, record.latitude, record.longitude>>

\* the table row of a record: its columns renamed, and its altimeter
\* rounded in the returned table
RowOf(record) ==
    IF BatchReturned THEN RoundAltimeter(<<Rename(record)>>)[1] ELSE Rename(record)

\* the last record with the triple of record i
LastWith(i) ==
    CHOOSE j \in i..Len(metars) :
        /\ RecordTriple(metars[j]) = RecordTriple(metars[i])
        /\ \A k \in (j + 1)..Len(metars) :
              RecordTriple(metars[k]) # RecordTriple(metars[i])

C25_KeepLast ==
    Deduplicated =>
      LET rows == [i \in 1..Len(metars) |-> RowOf(metars[i])]
          triples == [i \in 1..Len(metars) |-> RecordTriple(metars[i])]
          last == [i \in 1..Len(metars) |-> LastWith(i)]
      IN  /\ \A a, b \in 1..Len(df) :
                a # b => <<df[a].date_time, df[a].latitude, df[a].longitude>>
                         # <<df[b].date_time, df[b].latitude, df[b].longitude>>
          /\ \A i \in 1..Len(metars) : \E a \in 1..Len(df) : df[a] = rows[last[i]]
          /\ Len(df) <= Len(metars)
          /\ (\A i, j \in 1..Len(metars) : i # j => triples[i] # triples[j])
             => df = rows

C25_Witness ==
    /\ BatchReturned
    /\ Len(metars) = 3
    /\ RecordTriple(metars[1]) = RecordTriple(metars[2])
    /\ metars[1].temperature # metars[2].temperature
    /\ RecordTriple(metars[3]) # RecordTriple(metars[1])
    /\ df = <<RowOf(metars[2]), RowOf(metars[3])>>

C25_WitnessMissing ==
    /\ BatchReturned
    /\ Len(metars) = 2
    /\ RecordTriple(metars[1]) = <<NaN, NaN, NaN>>
    /\ RecordTriple(metars[2]) = <<NaN, NaN, NaN>>
    /\ metars[1].temperature # metars[2].temperature
    /\ df = <<RowOf(metars[2])>>

(***************************************************************************)
(* C24.  Reassembly of reports that span lines, once the whole file is     *)
(* read.  A non-blank line starts a report when it does not start with the *)
(* 5-blank prefix or is the first non-blank line; every other non-blank    *)
(* line belongs to the report of the last start before it, blank lines in  *)
(* between or not.  The reports emitted are, in order, one per start: its  *)
(* lines, stripped, in file order, joined by one blank.  So every          *)
(* non-blank line is in exactly one report, no report is empty, and the    *)
(* reports handed to the parser are the emitted reports longer than 25     *)
(* characters, in order.                                                   *)
(***************************************************************************)
FileDone == file_pc = "done"

NonBlank == {k \in 1..Len(myfile) : Strip(myfile[k]) # <<>>}

Starts ==
    {k \in NonBlank :
        \/ ~StartsWith(myfile[k], <<" ", " ", " ", " ", " ">>)
        \/ \A j \in NonBlank : k <= j}

\* the lines of the report that line k starts
LinesOf(k) == {j \in NonBlank : k <= j /\ \A s \in Starts : ~(k < s /\ s <= j)}

RECURSIVE Ascending(_)
Ascending(S) ==
    IF S = {} THEN <<>>
    ELSE LET least == CHOOSE x \in S : \A y \in S : x <= y
         IN  <<least>> \o Ascending(S \ {least})

RECURSIVE JoinedLines(_)
JoinedLines(ks) ==
    IF ks = <<>> THEN <<>>
    ELSE IF Len(ks) = 1 THEN Strip(myfile[ks[1]])
    ELSE Strip(myfile[ks[1]]) \o <<" ">> \o JoinedLines(Tail(ks))

LongEnough(report) == Len(report) > 25

C24_Reassembly ==
    FileDone =>
      LET starts == Ascending(Starts)
      IN  /\ Len(yielded) = Len(starts)
          /\ \A n \in 1..Len(starts) :
                /\ yielded[n] = JoinedLines(Ascending(LinesOf(starts[n])))
                /\ yielded[n] # <<>>
          /\ \A k \in NonBlank : \E n \in 1..Len(starts) : k \in LinesOf(starts[n])
          /\ \A m, n \in 1..Len(starts) :
                m # n => LinesOf(starts[m]) \cap LinesOf(starts[n]) = {}
          /\ passed = SelectSeq(yielded, LongEnough)

C24_Witness ==
    /\ FileDone
    /\ Len(myfile) = 4
    /\ ~LongEnough(Strip(myfile[1]))
    /\ Strip(myfile[2]) = <<>>
    /\ StartsWith(myfile[3], prefix) /\ Strip(myfile[3]) # <<>>
    /\ Strip(myfile[4]) = ShortReport
    /\ yielded = <<Strip(myfile[1]) \o <<" ">> \o Strip(myfile[3]), ShortReport>>
    /\ passed = <<yielded[1]>>

=============================================================================
